---- MODULE Spec2Model ----
(***************************************************************************)
(* A model of dunst's layout-and-paint core (src/src/draw.c): the colour   *)
(* resolver, the icon loader, the layout builder, the dimension calculator *)
(* and the stack renderer, composed by draw().                             *)
(*                                                                         *)
(* Conventions                                                             *)
(*  - C strings are sequences of one-character strings; markup text is a   *)
(*    sequence of tokens (a glyph or a tag).                                *)
(*  - A colour channel is an integer in units of 1/510, so that byte/255.0 *)
(*    is 2*byte, the delta 0.1 is 51 and the threshold 0.5 is 255.          *)
(*  - Pango and gdk-pixbuf are external libraries: the model gives them a   *)
(*    fixed font metric (every glyph one pixel wide, FontHeight high).      *)
(***************************************************************************)
EXTENDS Integers, Sequences, FiniteSets, TLC

VARIABLES
    settings,       \* the settings structure (fixed during rendering)
    geometry,       \* struct geometry
    scr,            \* the active screen (get_active_screen())
    displayed,      \* the displayed notifications, in order
    queue,          \* the hidden (pending) notifications
    fs,             \* the icon files: path -> status
    out,            \* what the last draw() did
    markup_errors,  \* per notification id: "Error parsing markup" lines printed so far
    cchain,         \* colour resolver: bg, f(bg), f(f(bg))
    pstr,           \* colour parser: the input string
    g_free_error,   \* per file: what g_free(error) does after the file failed to decode
    pres,           \* colour parser: the result and what was printed
    ireq,           \* icon loader: the icon reference asked for
    ires,           \* icon loader: the result and what was printed
    created,        \* notifications created so far (their ids are 1..created)
    builds          \* per notification id: layouts built from it so far

vars == <<settings, geometry, scr, displayed, queue, fs, g_free_error, out,
          markup_errors, cchain, pstr, pres, ireq, ires, created, builds>>

drawVars  == <<settings, geometry, scr, displayed, queue, fs, g_free_error, out,
               markup_errors, created, builds>>
colorVars == <<cchain>>
parseVars == <<pstr, pres>>
iconVars  == <<ireq, ires>>

(***************************************************************************)
(* Bounds of the model                                                     *)
(***************************************************************************)
MaxStrLen == 4      \* characters after the marker of a colour string
ByteStep == 25      \* SpecColor draws colour bytes from the multiples of this
MaxDirs == 2        \* directories in settings.icon_path
MaxLayouts == 3     \* displayed notifications in SpecDraw
MaxNotif == 3       \* notifications created in SpecQueue
MaxBuilds == 2      \* draw() runs while no displayed notification was built this often
FontHeight == 2     \* pixel height of one line of text
IconW == 2          \* pixel width of a decoded icon file
IconH == 5          \* pixel height of a decoded icon file
ScreenW == 8        \* pixel width of the active screen
FixedW == 6         \* the configured width of a fixed-width geometry
ShortText == 2      \* glyphs of a short message
LongText == 7       \* glyphs of a long message

(***************************************************************************)
(* glib / libc helpers                                                     *)
(***************************************************************************)
\* F(v), with v evaluated once (a local variable assigned once and read often)
Bind(v, F(_)) == CHOOSE y \in {F(x) : x \in {v}} : TRUE

MAX(a, b) == IF a > b THEN a ELSE b

MIN(a, b) == IF a < b THEN a ELSE b

HexDigitSet == {"0", "1", "2", "3", "4", "5", "6", "7", "8", "9",
                "a", "b", "c", "d", "e", "f", "A", "B", "C", "D", "E", "F"}

IsHexDigit(c) == c \in HexDigitSet

HexVal(c) ==
    CASE c = "0" -> 0 [] c = "1" -> 1 [] c = "2" -> 2 [] c = "3" -> 3
      [] c = "4" -> 4 [] c = "5" -> 5 [] c = "6" -> 6 [] c = "7" -> 7
      [] c = "8" -> 8 [] c = "9" -> 9
      [] c \in {"a", "A"} -> 10 [] c \in {"b", "B"} -> 11 [] c \in {"c", "C"} -> 12
      [] c \in {"d", "D"} -> 13 [] c \in {"e", "E"} -> 14 [] c \in {"f", "F"} -> 15

\* the index of the first character of s at or after i that is not a hex digit
RECURSIVE HexRunEnd(_, _)
HexRunEnd(s, i) ==
    IF i <= Len(s) /\ IsHexDigit(s[i]) THEN HexRunEnd(s, i + 1) ELSE i

\* the value of the hex digits s[i..j-1]
RECURSIVE HexRunVal(_, _, _, _)
HexRunVal(s, i, j, acc) ==
    IF i >= j THEN acc ELSE HexRunVal(s, i + 1, j, acc * 16 + HexVal(s[i]))

\* isspace in the C locale: space, \t, \n, \f, \r and the vertical tab; a string
\* of this module cannot hold a vertical tab, so no input of the model has one
WhiteSpace == {" ", "\t", "\n", "\f", "\r"}

RECURSIVE SkipSpace(_, _)
SkipSpace(s, i) == IF i <= Len(s) /\ s[i] \in WhiteSpace THEN SkipSpace(s, i + 1) ELSE i

\* strtol(s, &end, 16): leading white space, an optional sign, an optional 0x,
\* then hex digits; without a digit nothing is converted and end is the start.
\* end is the index in s of the first character not converted (Len(s)+1: the NUL).
strtol16(s) ==
    LET i0 == SkipSpace(s, 1)
        neg == i0 <= Len(s) /\ s[i0] = "-"
        i1 == IF i0 <= Len(s) /\ s[i0] \in {"-", "+"} THEN i0 + 1 ELSE i0
        has0x == /\ i1 + 2 <= Len(s)
                 /\ s[i1] = "0"
                 /\ s[i1 + 1] \in {"x", "X"}
                 /\ IsHexDigit(s[i1 + 2])
    IN  Bind(IF has0x THEN i1 + 2 ELSE i1, LAMBDA i2 :
        Bind(HexRunEnd(s, i2), LAMBDA e :
             IF e = i2 THEN [val |-> 0, end |-> 1]
             ELSE [val |-> IF neg THEN 0 - HexRunVal(s, i2, e, 0)
                           ELSE HexRunVal(s, i2, e, 0),
                   end |-> e]))

(***************************************************************************)
(* 4.1 Colour resolver                                                     *)
(***************************************************************************)
\* A double is held exactly as the record [u, k, s] read against a denominator
\* Q: its value is u/Q + k/(Q * 2^s).  The channels of a colour are read
\* against ColorUnit (u counts 1/510), their mean against 3 * ColorUnit.  u is
\* the number the arithmetic would give without rounding and k/2^s the sum of
\* the rounding steps taken so far, k odd or s = 0.
ColorUnit == 2 * 255

\* u/Q + k/(Q * 2^s) >= 2^j, for u > 0 and j from -30 to 30
AtLeastPow2(U, K, Q, j) ==
    IF j >= 0
    THEN U \div 2^j > Q \/ (U \div 2^j = Q /\ (U % 2^j > 0 \/ K >= 0))
    ELSE U > Q \div 2^(0 - j)
         \/ (Q % 2^(0 - j) = 0 /\ U = Q \div 2^(0 - j) /\ K >= 0)

\* the binary exponent of a positive value, known to be between lo and hi
RECURSIVE ExponentIn(_, _, _, _, _)
ExponentIn(U, K, Q, lo, hi) ==
    IF lo = hi THEN lo
    ELSE IF AtLeastPow2(U, K, Q, (lo + hi + 1) \div 2)
    THEN ExponentIn(U, K, Q, (lo + hi + 1) \div 2, hi)
    ELSE ExponentIn(U, K, Q, lo, ((lo + hi + 1) \div 2) - 1)

\* for a value between 2^-30 and 2^31
Exponent(U, K, Q) == ExponentIn(U, K, Q, 0 - 30, 30)

\* (v * 2^n) mod M without leaving the range of a 32-bit integer
RECURSIVE MulPow2Mod(_, _, _)
MulPow2Mod(v, n, M) ==
    IF M < 2^15
    THEN IF n <= 16 THEN ((v % M) * 2^n) % M
         ELSE MulPow2Mod(((v % M) * 2^16) % M, n - 16, M)
    ELSE IF n = 0 THEN v % M
         ELSE MulPow2Mod(((v % M) * 2) % M, n - 1, M)

\* k * 2^(to - from): the same offset read at a finer scale
Rescale(k, from, to) == IF k = 0 THEN 0 ELSE k * 2^(to - from)

\* the record of a value with k odd or s = 0
RECURSIVE Normalise(_)
Normalise(d) ==
    IF d.k = 0 THEN [u |-> d.u, k |-> 0, s |-> 0]
    ELSE IF d.k % 2 = 0 /\ d.s > 0
    THEN Normalise([u |-> d.u, k |-> d.k \div 2, s |-> d.s - 1])
    ELSE d

\* The result of one operation on doubles: the exact value U/Q + K/(Q * 2^s),
\* U >= 0, rounded to the nearest double, ties to the even fraction.  With e
\* the exponent of the value, neighbouring doubles are 2^(e - 52) apart, that
\* is D = Q * 2^(t - (52 - e)) in units of 1/(Q * 2^t), t the finer of the scales
\* s and 52 - e; X is the value modulo 2 * D (U * 2^t is 2 * D / Q times
\* U * 2^(51 - e)), and R what the value has above the double below it.  With
\* U = 0 the value is the difference of two doubles less than a rounding step
\* apart, which is a double.
RoundDouble(U, K, s, Q) ==
    IF U = 0 THEN Normalise([u |-> U, k |-> K, s |-> s])
    ELSE Bind(Exponent(U, K, Q), LAMBDA e :
         Bind(MAX(s, 52 - e), LAMBDA t :
         Bind(Q * 2^(t - (52 - e)), LAMBDA D :
         Bind((((2 * D) \div Q) * MulPow2Mod(U, 51 - e, Q) + Rescale(K, s, t)) % (2 * D),
              LAMBDA X :
         Bind(X % D, LAMBDA R :
              Normalise([u |-> U,
                         k |-> IF 2 * R > D \/ (2 * R = D /\ X >= D)
                               THEN Rescale(K, s, t) + D - R
                               ELSE Rescale(K, s, t) - R,
                         s |-> t]))))))

\* a + b for doubles read against Q, before rounding: [u, k, s]
ExactSum(a, b) ==
    [u |-> a.u + b.u,
     k |-> Rescale(a.k, a.s, MAX(a.s, b.s)) + Rescale(b.k, b.s, MAX(a.s, b.s)),
     s |-> MAX(a.s, b.s)]

ZeroDouble == [u |-> 0, k |-> 0, s |-> 0]

\* double c_delta = 0.1: the double nearest to one tenth
c_delta == RoundDouble(51, 0, 0, ColorUnit)

\* a double against an integer count of units
DoubleIsNegative(d) == d.u < 0 \/ (d.u = 0 /\ d.k < 0)
DoubleIsAbove(d, units) == d.u > units \/ (d.u = units /\ d.k > 0)

\* byte / 255.0 for every byte: the double nearest to the quotient
ByteOver255 == [byte \in 0..255 |-> RoundDouble(2 * byte, 0, 0, ColorUnit)]

\* ((hexValue >> n) & 0xFF) / 255.0, shift = 2^n.  The quotient rounds down and
\* the remainder is never negative, as the bits of a two's complement int are;
\* the conversion of the long to int keeps the bits read here.
ByteAt(hexValue, shift) == ByteOver255[(hexValue \div shift) % 256]

x_color_hex_to_double(hexValue) ==
    [r |-> ByteAt(hexValue, 65536), g |-> ByteAt(hexValue, 256), b |-> ByteAt(hexValue, 1)]

\* the test that guards the warning: *end != '\0' && *(end+1) != '\0'
InvalidColorString(s, end) == end <= Len(s) /\ end + 1 <= Len(s)

\* str is not empty: str+1 is its tail
x_string_to_color_t(str) ==
    Bind(strtol16(Tail(str)), LAMBDA r :
         [color |-> x_color_hex_to_double(r.val),
          printed |-> IF InvalidColorString(Tail(str), r.end)
                      THEN <<[msg |-> "WARNING: Invalid color string", id |-> 0]>>
                      ELSE <<>>])

\* base += delta; if (base > 1) base = 1; if (base < 0) base = 0.  A negative
\* sum rounds to a negative double, which the second test sets to zero.
_apply_delta(base, delta) ==
    Bind(ExactSum(base, delta), LAMBDA sum :
         IF DoubleIsNegative(sum) THEN ZeroDouble
         ELSE Bind(RoundDouble(sum.u, sum.k, sum.s, ColorUnit), LAMBDA b1 :
                   IF DoubleIsAbove(b1, ColorUnit)
                   THEN [u |-> ColorUnit, k |-> 0, s |-> 0]
                   ELSE b1))

\* (bg.r + bg.g + bg.b) / 3 > 0.5: two additions and a division, each rounded
IsLight(bg) ==
    Bind(ExactSum(bg.r, bg.g), LAMBDA rg :
    Bind(ExactSum(RoundDouble(rg.u, rg.k, rg.s, ColorUnit), bg.b), LAMBDA rgb :
    Bind(RoundDouble(rgb.u, rgb.k, rgb.s, ColorUnit), LAMBDA sum :
         DoubleIsAbove(RoundDouble(sum.u, sum.k, sum.s, 3 * ColorUnit), 3 * 255))))

SignednessMutAway(bg) == IF IsLight(bg) THEN 1 ELSE 0 - 1

Signedness(bg) == IF IsLight(bg) THEN 0 - 1 ELSE 1

\* c_delta * signedness is exact: signedness is 1 or -1
calculate_foreground_color(bg) ==
    Bind([u |-> c_delta.u * Signedness(bg), k |-> c_delta.k * Signedness(bg),
          s |-> c_delta.s], LAMBDA delta :
         [r |-> _apply_delta(bg.r, delta),
          g |-> _apply_delta(bg.g, delta),
          b |-> _apply_delta(bg.b, delta)])

(***************************************************************************)
(* Pango (external): a layout is its text, its attributes, its width and   *)
(* its ellipsize mode.  Every glyph, the hyphen and the ellipsis among     *)
(* them, is one pixel wide, a line FontHeight high; a tag token is never   *)
(* part of a layout's text unless the caller put it there.                 *)
(***************************************************************************)
pango_layout_new == [text |-> <<>>, attrs |-> {}, width |-> 0 - 1, ellipsize |-> "none"]

Letters == {"a", "b", "c", "d", "e", "f", "g", "h", "i", "j", "k", "l", "m",
            "n", "o", "p", "q", "r", "s", "t", "u", "v", "w", "x", "y", "z",
            "A", "B", "C", "D", "E", "F", "G", "H", "I", "J", "K", "L", "M",
            "N", "O", "P", "Q", "R", "S", "T", "U", "V", "W", "X", "Y", "Z"}

DigitGlyphs == {"0", "1", "2", "3", "4", "5", "6", "7", "8", "9"}

\* The glyphs of a text are letters, digits, spaces and the parentheses.
\* The pixels a break after text[p] adds to its line: a hyphen when the break
\* is inside a word and follows a letter; nothing at the end of a word (before
\* a space or a parenthesis) and nothing after a digit or a parenthesis
HyphenWidth(text, p) ==
    IF /\ p >= 1 /\ p + 1 <= Len(text)
       /\ text[p] \in Letters
       /\ text[p + 1] \in Letters \cup DigitGlyphs
    THEN 1 ELSE 0

\* the index of the last glyph at or before text[p] that is no space, 0 if none
RECURSIVE BeforeSpaces(_, _)
BeforeSpaces(text, p) ==
    IF p >= 1 /\ text[p] = " " THEN BeforeSpaces(text, p - 1) ELSE p

\* may a line end after text[p] without breaking a word: at the end of the
\* text, after the spaces that follow anything but "(" unless a space or ")"
\* comes next, and between ")" and "("
IsLineBreak(text, p) ==
    IF p >= Len(text) THEN TRUE
    ELSE IF text[p + 1] \in {" ", ")"} THEN FALSE
    ELSE IF text[p] = " "
    THEN Bind(BeforeSpaces(text, p), LAMBDA b : b = 0 \/ text[b] # "(")
    ELSE text[p] = ")" /\ text[p + 1] = "("

\* what a line that ends after text[p] takes besides its glyphs: the hyphen,
\* or one pixel less for the space it ends with, which takes no room
BreakExtraWidth(text, p) ==
    IF p < 1 THEN 0 ELSE IF text[p] = " " THEN 0 - 1 ELSE HyphenWidth(text, p)

\* A layout is shaped item by item, an item being a run of glyphs with the
\* same attributes (attrs holds the indices of the bold glyphs): the index of
\* the last glyph of the item of text[i]
RECURSIVE ItemEnd(_, _, _)
ItemEnd(text, attrs, i) ==
    IF i + 1 <= Len(text) /\ ((i + 1 \in attrs) <=> (i \in attrs))
    THEN ItemEnd(text, attrs, i + 1) ELSE i

\* has the item text[pos..e] a place where a line may end without breaking a
\* word, its start counting when glyphs precede it on the line
can_break_in(text, pos, e, allow_break_at_start) ==
    \E c \in (IF allow_break_at_start THEN 0 ELSE 1)..(e - pos) :
        IsLineBreak(text, pos + c - 1)

\* The glyphs of the item text[pos..e] that are put on a line with R pixels
\* left, `runs` telling whether the line has glyphs already: the whole item
\* if it fits or is one glyph alone on its line; otherwise the most glyphs
\* after which a line may end without breaking a word and that fit; otherwise,
\* when the line has to end here (force_fit), the most glyphs that fit with the
\* hyphen a break inside a word takes, or the fewest the line can have when
\* nothing fits.  The answer is -1 when the line has to end in an earlier item.
process_item(text, pos, e, R, runs, force_fit, no_break_at_end) ==
    IF (e - pos + 1 <= R \/ (e = pos /\ ~runs)) /\ ~no_break_at_end
    THEN e - pos + 1
    ELSE Bind((IF runs THEN 0 ELSE 1)..(IF no_break_at_end THEN e - pos ELSE e - pos + 1),
              LAMBDA chars :
         Bind({c \in chars : c + BreakExtraWidth(text, pos + c - 1) <= R}, LAMBDA fits :
         Bind({c \in fits : IsLineBreak(text, pos + c - 1)}, LAMBDA words :
              IF words # {} THEN CHOOSE c \in words : \A d \in words : d <= c
              ELSE IF ~force_fit THEN 0 - 1
              ELSE IF fits # {} THEN CHOOSE c \in fits : \A d \in fits : d <= c
              ELSE CHOOSE c \in chars : \A d \in chars : c <= d)))

\* a line of text[start..] that ends after text[q] with text left over: the
\* hyphen is put after the glyphs even where it does not fit
WrappedLine(text, start, q) ==
    [w |-> q - start + 1 + BreakExtraWidth(text, q), next |-> q + 1]

NO_BREAK == [pos |-> 0, e |-> 0, R |-> 0]

\* The line of text[start..] while its items are put on it, pos the first
\* glyph not yet on the line, R the pixels left and brk the last item on the
\* line in which the line may end without breaking a word (NO_BREAK if none):
\* the line goes back to end in that item when a later item does not fit.
\* Returns [w, next]: the pixel width of the line and the index the next line
\* starts at.  The last line of a text keeps the width of its final spaces.
RECURSIVE FillLine(_, _, _, _, _, _)
FillLine(text, attrs, start, pos, R, brk) ==
    IF pos > Len(text)
    THEN [w |-> Len(text) - start + 1, next |-> Len(text) + 1]
    ELSE Bind(ItemEnd(text, attrs, pos), LAMBDA e :
         Bind(process_item(text, pos, e, R, pos > start, brk = NO_BREAK, FALSE), LAMBDA c :
              IF c = e - pos + 1
              THEN FillLine(text, attrs, start, e + 1,
                            MAX(R - (IF c <= R \/ (e = pos /\ pos = start) THEN c
                                     ELSE c + BreakExtraWidth(text, e)), 0),
                            IF can_break_in(text, pos, e, pos > start)
                            THEN [pos |-> pos, e |-> e, R |-> R] ELSE brk)
              ELSE IF c >= 0 THEN WrappedLine(text, start, pos + c - 1)
              ELSE WrappedLine(text, start,
                               brk.pos - 1 + process_item(text, brk.pos, brk.e, brk.R,
                                                          brk.pos > start, TRUE, TRUE))))

\* the first line of text[i..] wrapped at `width` (PANGO_WRAP_WORD_CHAR)
WrapLine(text, attrs, i, width) == FillLine(text, attrs, i, i, width, NO_BREAK)

\* the lines of text[i..] wrapped at `width`: their number and the widest
RECURSIVE WrapFrom(_, _, _, _, _)
WrapFrom(text, attrs, i, width, acc) ==
    Bind(WrapLine(text, attrs, i, width), LAMBDA line :
         IF line.next > Len(text)
         THEN [lines |-> acc.lines + 1, w |-> MAX(acc.w, line.w)]
         ELSE WrapFrom(text, attrs, line.next, width,
                       [lines |-> acc.lines + 1, w |-> MAX(acc.w, line.w)]))

\* lines of `len` glyphs "a" wrapped at `width` pixels
WrappedLines(len, width) ==
    WrapFrom([i \in 1..len |-> "a"], {}, 1, width, [lines |-> 0, w |-> 0]).lines

\* without a width the text is one line; an ellipsized text is one line, cut
\* to the width with the ellipsis in it; any other text is wrapped
pango_layout_get_pixel_size(l) ==
    IF l.width < 0
    THEN [w |-> Len(l.text), h |-> FontHeight]
    ELSE IF l.ellipsize # "none"
    THEN [w |-> IF Len(l.text) <= l.width THEN Len(l.text) ELSE MAX(1, l.width),
          h |-> FontHeight]
    ELSE Bind(WrapFrom(l.text, l.attrs, 1, l.width, [lines |-> 0, w |-> 0]), LAMBDA wrapped :
              [w |-> wrapped.w,
               h |-> wrapped.lines * FontHeight
                     + (wrapped.lines - 1) * settings.line_height])

\* pango_layout_set_width takes any negative width as -1 (no wrapping)
r_setup_pango_layout(layout, width) ==
    [layout EXCEPT !.width = IF width < 0 THEN 0 - 1 ELSE width]

IsTag(t) == t \in {"<b>", "</b>", "<x>", "</x>"}

\* pango_parse_markup over tokens: <b> is the one element known here, any other
\* tag, a stray </b> or an unclosed <b> is a parse error.
RECURSIVE ParseMarkup(_, _, _, _, _)
ParseMarkup(toks, i, depth, plain, bold) ==
    IF i > Len(toks)
    THEN [err |-> depth > 0, text |-> plain, attr |-> bold]
    ELSE IF toks[i] = "<b>"
    THEN ParseMarkup(toks, i + 1, depth + 1, plain, bold)
    ELSE IF toks[i] = "</b>"
    THEN IF depth = 0
         THEN [err |-> TRUE, text |-> plain, attr |-> bold]
         ELSE ParseMarkup(toks, i + 1, depth - 1, plain, bold)
    ELSE IF IsTag(toks[i])
    THEN [err |-> TRUE, text |-> plain, attr |-> bold]
    ELSE ParseMarkup(toks, i + 1, depth, Append(plain, toks[i]),
                     IF depth > 0 THEN bold \cup {Len(plain) + 1} ELSE bold)

pango_parse_markup(toks) == ParseMarkup(toks, 1, 0, <<>>, {})

IsPlainToken(t) == ~IsTag(t)

\* markup_strip (src/markup.c, not in this corpus): the text with its tags removed
markup_strip(toks) == SelectSeq(toks, IsPlainToken)

DigitChars == <<"0", "1", "2", "3", "4", "5", "6", "7", "8", "9">>

\* printf's %d of a number >= 0
RECURSIVE FormatDecimal(_)
FormatDecimal(k) ==
    IF k < 10 THEN <<DigitChars[k + 1]>>
    ELSE FormatDecimal(k \div 10) \o <<DigitChars[(k % 10) + 1]>>

\* g_strdup_printf("%s (%d more)", text, qlen)
FormatSuffixed(text, qlen) ==
    text \o <<" ", "(">> \o FormatDecimal(qlen) \o <<" ", "m", "o", "r", "e", ")">>

\* g_strdup_printf("(%d more)", qlen)
FormatXmore(qlen) == <<"(">> \o FormatDecimal(qlen) \o <<" ", "m", "o", "r", "e", ")">>

(***************************************************************************)
(* 4.2 Icon loader                                                         *)
(* A path is the tuple <<folder, name, ext>>: the file that                 *)
(* g_strconcat(folder, "/", name, ext) names.  The absolute path "/name"   *)
(* is <<<<>>, name, "">>, and "folder//name.ext", which the search builds  *)
(* from an absolute path, is the file <<folder, name, ext>>: a repeated    *)
(* slash is one separator.  The relative path "~name" is the file          *)
(* <<<<".">>, "~name", "">>.                                               *)
(***************************************************************************)
FileStates == {"absent", "unreadable", "corrupt", "ok"}

FileStatus(path) == IF path \in DOMAIN fs THEN fs[path] ELSE "absent"

NULL_PIXBUF == [path |-> <<>>, w |-> 0, h |-> 0]

does_file_exist(path) == FileStatus(path) # "absent"

is_readable_file(path) == FileStatus(path) \in {"corrupt", "ok"}

\* what stands for the pixbuf when the process ended inside the call
ABORTED_PIXBUF == [path |-> <<>>, w |-> 0 - 1, h |-> 0 - 1]

\* g_free(error) on the GError of a failed decode frees memory that g_malloc
\* did not return: undefined, and either it returns or the process aborts
GFreeOutcomes == {"returns", "aborts"}

get_pixbuf_from_file(path) ==
    IF ~is_readable_file(path) THEN NULL_PIXBUF
    ELSE IF FileStatus(path) = "ok" THEN [path |-> path, w |-> IconW, h |-> IconH]
    ELSE IF g_free_error[path] = "aborts" THEN ABORTED_PIXBUF
    ELSE NULL_PIXBUF

\* strchr(start, ':'), or the end of the string: an index into icon_path
RECURSIVE FolderEnd(_, _)
FolderEnd(s, i) == IF i <= Len(s) /\ s[i] # ":" THEN FolderEnd(s, i + 1) ELSE i

\* the candidate tried in one folder: the svg if a file of that name exists
maybe_icon_path(folder, name) ==
    IF ~does_file_exist(<<folder, name, ".svg">>)
    THEN <<folder, name, ".png">>
    ELSE <<folder, name, ".svg">>

\* the do-while loop over settings.icon_path, from index start; a process
\* that aborted in a folder tries no further one
RECURSIVE SearchIconPath(_, _, _)
SearchIconPath(start, name, visited) ==
    Bind(FolderEnd(settings.icon_path, start), LAMBDA end :
    Bind(SubSeq(settings.icon_path, start, end - 1), LAMBDA current_folder :
    Bind(get_pixbuf_from_file(maybe_icon_path(current_folder, name)), LAMBDA pixbuf :
         IF pixbuf # NULL_PIXBUF
         THEN [pixbuf |-> pixbuf, visited |-> Append(visited, current_folder)]
         ELSE IF end <= Len(settings.icon_path)
         THEN SearchIconPath(end + 1, name, Append(visited, current_folder))
         ELSE [pixbuf |-> NULL_PIXBUF, visited |-> Append(visited, current_folder)])))

\* An icon reference is [kind, name]: kind "empty" (""), "name" (the bare
\* name), "abs" (the path "/" name), "tilde" (name starts with ~: the relative
\* path of that name), "uri" (file:// of the path "/" name), "baduri" (file://
\* that g_filename_from_uri rejects, used as a bare name).  The search that
\* follows a failed direct load concatenates the folder, "/" and the whole
\* path.  Nothing is printed by a process that aborted.
get_pixbuf_from_path(icon) ==
    IF icon.kind = "empty"
    THEN [pixbuf |-> NULL_PIXBUF, printed |-> <<>>, visited |-> <<>>]
    ELSE Bind(IF icon.kind \in {"abs", "uri"}
              THEN get_pixbuf_from_file(<<<<>>, icon.name, "">>)
              ELSE IF icon.kind = "tilde"
              THEN get_pixbuf_from_file(<<<<".">>, icon.name, "">>)
              ELSE NULL_PIXBUF, LAMBDA direct :
         Bind(IF direct = NULL_PIXBUF THEN SearchIconPath(1, icon.name, <<>>)
              ELSE [pixbuf |-> direct, visited |-> <<>>], LAMBDA found :
              [pixbuf |-> found.pixbuf,
               printed |-> IF found.pixbuf = NULL_PIXBUF
                           THEN <<[msg |-> "Could not load icon", id |-> 0]>>
                           ELSE <<>>,
               visited |-> found.visited]))

(***************************************************************************)
(* 4.4 Dimension calculator                                                *)
(* A colored_layout is [l, fg, bg, frame, text, attr, icon, n]: l the      *)
(* PangoLayout, icon a surface [w, h, status] or NULL_ICON, n the id of    *)
(* its notification (0: NULL).  NULL text and attr are <<>> and {}.        *)
(***************************************************************************)
NULL_ICON == [w |-> 0 - 1, h |-> 0 - 1, status |-> "NULL"]

\* the width selection before the loop
InitialWidthMutIgnoreFixed == IF geometry.dynamic_width THEN 0 ELSE scr.w

InitialWidth ==
    IF geometry.dynamic_width THEN 0
    ELSE IF geometry.width # 0
    THEN IF geometry.negative_width THEN scr.w - geometry.width ELSE geometry.width
    ELSE scr.w

\* the size a layout asks for: its text, its icon, the padding, the minimum height
measure_layout(cl) ==
    Bind(pango_layout_get_pixel_size(cl.l), LAMBDA p :
         [w |-> IF cl.icon # NULL_ICON THEN p.w + cl.icon.w + settings.h_padding ELSE p.w,
          h |-> MAX(settings.notification_height,
                    (IF cl.icon # NULL_ICON THEN MAX(cl.icon.h, p.h) ELSE p.h)
                    + settings.padding * 2)])

\* dim.h -= h: the height of the text before it is shaped again
SubtractUnwrappedMutKeep(dim_h, h) == dim_h

SubtractUnwrapped(dim_h, h) == dim_h - h

\* total_width = MAX(text_width + 2 * settings.h_padding, total_width)
TotalWidthMutOnePadding(text_width, total_width) ==
    MAX(text_width + settings.h_padding, total_width)

TotalWidth(text_width, total_width) ==
    MAX(text_width + 2 * settings.h_padding, total_width)

\* one iteration of the loop over the layouts; acc is [dim, text_width,
\* total_width, layouts], layouts the ones already handled
calc_step(acc, cl) ==
    Bind(measure_layout(cl), LAMBDA m :
    Bind(MAX(m.w, acc.text_width), LAMBDA tw1 :
         IF ~(geometry.dynamic_width \/ settings.shrink)
         THEN [dim |-> [acc.dim EXCEPT !.h = acc.dim.h + m.h],
               text_width |-> tw1,
               total_width |-> acc.total_width,
               layouts |-> Append(acc.layouts, cl)]
         ELSE
    Bind(TotalWidth(tw1, acc.total_width), LAMBDA total :
    Bind(IF total > scr.w
         THEN scr.w - geometry.x * 2
         ELSE IF geometry.dynamic_width \/ (total < geometry.width /\ settings.shrink)
         THEN total + 2 * settings.frame_width
         ELSE acc.dim.w, LAMBDA w1 :
    Bind([cl EXCEPT !.l = r_setup_pango_layout(cl.l,
                             w1 - 2 * settings.h_padding - 2 * settings.frame_width
                             - (IF cl.icon # NULL_ICON
                                THEN cl.icon.w + settings.h_padding ELSE 0))],
         LAMBDA cl2 :
    Bind(measure_layout(cl2), LAMBDA m2 :
         [dim |-> [acc.dim EXCEPT !.w = w1,
                                  !.h = SubtractUnwrapped(acc.dim.h + m.h, m.h) + m2.h],
          text_width |-> MAX(m2.w, tw1),
          total_width |-> total,
          layouts |-> Append(acc.layouts, cl2)]))))))

RECURSIVE calc_loop(_, _, _)
calc_loop(layouts, i, acc) ==
    IF i > Len(layouts) THEN acc
    ELSE Bind(calc_step(acc, layouts[i]), LAMBDA a : calc_loop(layouts, i + 1, a))

\* returns the dimension and the layouts as the loop left them (it shapes them
\* again in place).  g_slist_length is unsigned: for no layout (length - 1) is
\* UINT_MAX, and UINT_MAX * separator_height, stored in an int, is -separator_height.
calculate_dimensions(layouts) ==
    Bind(calc_loop(layouts, 1,
                   [dim |-> [w |-> InitialWidth,
                             h |-> 2 * settings.frame_width
                                   + (IF Len(layouts) = 0
                                      THEN 0 - settings.separator_height
                                      ELSE (Len(layouts) - 1) * settings.separator_height),
                             x |-> 0, y |-> 0],
                    text_width |-> 0, total_width |-> 0, layouts |-> <<>>]),
         LAMBDA acc :
         [dim |-> IF acc.dim.w <= 0
                  THEN [acc.dim EXCEPT !.w = acc.text_width + 2 * settings.h_padding
                                             + 2 * settings.frame_width]
                  ELSE acc.dim,
          layouts |-> acc.layouts])

(***************************************************************************)
(* 4.3 Layout builder                                                      *)
(* A notification is [id, msg, icon, raw_icon, icon_overridden, urgency,   *)
(* color_strings, text_to_render, first_render, displayed_height].         *)
(***************************************************************************)
NULL_NOTIF ==
    [id |-> 0, msg |-> <<>>, icon |-> [kind |-> "null", name |-> ""],
     raw_icon |-> NULL_PIXBUF, icon_overridden |-> FALSE, urgency |-> 0,
     color_strings |-> [fg |-> <<>>, bg |-> <<>>, frame |-> <<>>],
     text_to_render |-> <<>>, first_render |-> FALSE, displayed_height |-> 0]

\* (int) d for a double d that is not negative, read against Q
TruncateDouble(d, Q) ==
    IF d.u % Q = 0 /\ d.k < 0 THEN (d.u \div Q) - 1 ELSE d.u \div Q

\* (int) ((double) max / larger * smaller): a division and a multiplication of
\* doubles, each rounded, then the fraction dropped
ScaledSide(max, larger, smaller) ==
    Bind(RoundDouble(max, 0, 0, larger), LAMBDA q :
         TruncateDouble(RoundDouble(q.u * smaller, q.k * smaller, q.s, larger), larger))

\* gdk-pixbuf (external): a scaled copy of the pixbuf, and NULL when a side
\* asked for is not positive
gdk_pixbuf_scale_simple(pixbuf, dest_width, dest_height) ==
    IF dest_width > 0 /\ dest_height > 0
    THEN [pixbuf EXCEPT !.w = dest_width, !.h = dest_height]
    ELSE NULL_PIXBUF

\* the scaling of a pixbuf whose larger side exceeds settings.max_icon_size
ScaledPixbuf(pixbuf) ==
    IF pixbuf.w >= pixbuf.h
    THEN gdk_pixbuf_scale_simple(pixbuf, settings.max_icon_size,
                                 ScaledSide(settings.max_icon_size, pixbuf.w, pixbuf.h))
    ELSE gdk_pixbuf_scale_simple(pixbuf,
                                 ScaledSide(settings.max_icon_size, pixbuf.h, pixbuf.w),
                                 settings.max_icon_size)

\* cairo (external): the largest side of an image surface
MAX_IMAGE_SIZE == 2^15 - 1

\* A surface of the size of the pixbuf.  cairo_image_surface_create answers a
\* side above MAX_IMAGE_SIZE with its error surface, whose sides read 0.  With a NULL
\* pixbuf (the scaling failed) gdk_cairo_set_source_pixbuf ends the process.
gdk_pixbuf_to_cairo_surface(pixbuf) ==
    IF pixbuf = NULL_PIXBUF
    THEN [w |-> 0 - 1, h |-> 0 - 1, status |-> "TERMINATED"]
    ELSE IF pixbuf.w > MAX_IMAGE_SIZE \/ pixbuf.h > MAX_IMAGE_SIZE
    THEN [w |-> 0, h |-> 0, status |-> "INVALID_SIZE"]
    ELSE [w |-> pixbuf.w, h |-> pixbuf.h, status |-> "SUCCESS"]

cairo_surface_status(surface) == surface.status

\* n is not NULL; returns [cl, printed, crashed], crashed when the process
\* ended while the icon was loaded or turned into a surface, before the
\* colour strings are read
r_init_shared(n) ==
    Bind(IF n.raw_icon # NULL_PIXBUF /\ ~n.icon_overridden
            /\ settings.icon_position # "icons_off"
         THEN [pixbuf |-> n.raw_icon, printed |-> <<>>]
         ELSE IF n.icon.kind # "null" /\ settings.icon_position # "icons_off"
         THEN get_pixbuf_from_path(n.icon)
         ELSE [pixbuf |-> NULL_PIXBUF, printed |-> <<>>], LAMBDA load :
    Bind(IF load.pixbuf = ABORTED_PIXBUF
         THEN [w |-> 0 - 1, h |-> 0 - 1, status |-> "TERMINATED"]
         ELSE IF load.pixbuf # NULL_PIXBUF
         THEN gdk_pixbuf_to_cairo_surface(
                  IF settings.max_icon_size # 0
                     /\ MAX(load.pixbuf.w, load.pixbuf.h) > settings.max_icon_size
                  THEN ScaledPixbuf(load.pixbuf)
                  ELSE load.pixbuf)
         ELSE NULL_ICON, LAMBDA surface :
    Bind(IF surface # NULL_ICON /\ cairo_surface_status(surface) # "SUCCESS"
         THEN NULL_ICON
         ELSE surface, LAMBDA icon :
    Bind(x_string_to_color_t(n.color_strings.fg), LAMBDA fg :
    Bind(x_string_to_color_t(n.color_strings.bg), LAMBDA bg :
    Bind(x_string_to_color_t(n.color_strings.frame), LAMBDA frame :
    Bind(pango_layout_new, LAMBDA l :
    Bind(IF ~settings.word_wrap THEN [l EXCEPT !.ellipsize = settings.ellipsize] ELSE l,
         LAMBDA l0 :
         [cl |-> [l |-> IF geometry.dynamic_width
                        THEN r_setup_pango_layout(l0, 0 - 1)
                        ELSE r_setup_pango_layout(l0,
                                 calculate_dimensions(<<>>).dim.w
                                 - 2 * settings.h_padding - 2 * settings.frame_width
                                 - (IF icon # NULL_ICON
                                    THEN icon.w + settings.h_padding ELSE 0)),
                  fg |-> fg.color, bg |-> bg.color, frame |-> frame.color,
                  text |-> <<>>, attr |-> {}, icon |-> icon, n |-> n.id],
          printed |-> IF surface.status = "TERMINATED" THEN load.printed
                      ELSE load.printed \o fg.printed \o bg.printed \o frame.printed,
          crashed |-> surface.status = "TERMINATED"]))))))))

r_create_layout_for_xmore(n, qlen) ==
    Bind(r_init_shared(n), LAMBDA sh :
    Bind(FormatXmore(qlen), LAMBDA text :
         [cl |-> [sh.cl EXCEPT !.text = text, !.attr = {}, !.l.text = text],
          printed |-> sh.printed, crashed |-> sh.crashed]))

\* whether the parser error is printed
PrintsMarkupErrorMutAlways(n) == TRUE

PrintsMarkupError(n) == n.first_render

\* the text shown when the markup does not parse
FallbackText(text_to_render) == markup_strip(text_to_render)

\* returns the layout, the notification as the build leaves it, the lines
\* printed, and whether the process ended in r_init_shared
r_create_layout_from_notification(n) ==
    Bind(r_init_shared(n), LAMBDA sh :
    Bind(pango_parse_markup(n.text_to_render), LAMBDA parsed :
    Bind(IF parsed.err THEN FallbackText(n.text_to_render) ELSE n.text_to_render,
         LAMBDA ttr :
    Bind(IF ~parsed.err
         THEN [sh.cl EXCEPT !.text = parsed.text, !.attr = parsed.attr,
                            !.l.text = parsed.text, !.l.attrs = parsed.attr]
         ELSE [sh.cl EXCEPT !.text = <<>>, !.attr = {}, !.l.text = ttr], LAMBDA cl :
    Bind(pango_layout_get_pixel_size(cl.l), LAMBDA p :
         [cl |-> cl,
          n |-> [n EXCEPT !.text_to_render = ttr,
                          !.displayed_height =
                              MAX(settings.notification_height,
                                  (IF cl.icon # NULL_ICON THEN MAX(cl.icon.h, p.h) ELSE p.h)
                                  + settings.padding * 2),
                          !.first_render = FALSE],
          printed |-> sh.printed
                      \o (IF parsed.err /\ PrintsMarkupError(n) /\ ~sh.crashed
                          THEN <<[msg |-> "Error parsing markup", id |-> n.id]>>
                          ELSE <<>>),
          crashed |-> sh.crashed])))))

\* notification_update_text_to_render (src/notification.c, not in this corpus):
\* text_to_render is built anew from the message
notification_update_text_to_render(n) == [n EXCEPT !.text_to_render = n.msg]


XmoreIsNeeded(qlen) == qlen > 0 /\ settings.indicate_hidden

\* the loop over the displayed notifications; acc is [layouts, displayed,
\* printed, crashed], and the loop ends with the process
RECURSIVE create_loop(_, _, _)
create_loop(i, qlen, acc) ==
    IF i > Len(displayed) \/ acc.crashed THEN acc
    ELSE LET n0 == notification_update_text_to_render(displayed[i])
             n1 == IF i = Len(displayed) /\ XmoreIsNeeded(qlen) /\ geometry.height = 1
                   THEN [n0 EXCEPT !.text_to_render = FormatSuffixed(@, qlen)]
                   ELSE n0
         IN  Bind(r_create_layout_from_notification(n1), LAMBDA b :
                  create_loop(i + 1, qlen,
                              IF b.crashed
                              THEN [acc EXCEPT !.printed = @ \o b.printed,
                                               !.crashed = TRUE]
                              ELSE [layouts |-> Append(acc.layouts, b.cl),
                                    displayed |-> Append(acc.displayed, b.n),
                                    printed |-> acc.printed \o b.printed,
                                    crashed |-> FALSE]))

\* returns [crashed, layouts, displayed, printed]; with no displayed notification
\* `last` is NULL and the xmore layout is built from it: r_init_shared reads
\* n->raw_icon of a NULL pointer
r_create_layouts ==
    Bind(Len(queue), LAMBDA qlen :
    Bind(create_loop(1, qlen, [layouts |-> <<>>, displayed |-> <<>>, printed |-> <<>>,
                               crashed |-> FALSE]),
         LAMBDA acc :
         IF acc.crashed \/ ~(XmoreIsNeeded(qlen) /\ geometry.height # 1)
         THEN acc
         ELSE IF Len(displayed) = 0
         THEN [acc EXCEPT !.crashed = TRUE]
         ELSE Bind(r_create_layout_for_xmore(acc.displayed[Len(acc.displayed)], qlen),
                   LAMBDA x :
                   IF x.crashed
                   THEN [acc EXCEPT !.printed = @ \o x.printed, !.crashed = TRUE]
                   ELSE [crashed |-> FALSE, layouts |-> Append(acc.layouts, x.cl),
                         displayed |-> acc.displayed,
                         printed |-> acc.printed \o x.printed])))

(***************************************************************************)
(* 4.5 Stack renderer                                                      *)
(***************************************************************************)
\* cl->n->urgency, ns the notifications the layouts were built from
UrgencyOf(ns, id) ==
    IF \E i \in 1..Len(ns) : ns[i].id = id
    THEN ns[CHOOSE i \in 1..Len(ns) : ns[i].id = id].urgency
    ELSE 0

\* returns [color, printed]: the colour and the lines printed on the way
x_get_separator_color(ns, cl, cl_next) ==
    IF settings.sep_color = "FRAME"
    THEN [color |-> IF UrgencyOf(ns, cl_next.n) > UrgencyOf(ns, cl.n)
                    THEN cl_next.frame ELSE cl.frame,
          printed |-> <<>>]
    ELSE IF settings.sep_color = "CUSTOM"
    THEN x_string_to_color_t(settings.sep_custom_color_str)
    ELSE IF settings.sep_color = "FOREGROUND" THEN [color |-> cl.fg, printed |-> <<>>]
    ELSE IF settings.sep_color = "AUTO"
    THEN [color |-> calculate_foreground_color(cl.bg), printed |-> <<>>]
    ELSE [color |-> cl.fg,
          printed |-> <<[msg |-> "Unknown separator color type. Please file a Bugreport.",
                         id |-> 0]>>]

\* the cursor over the text of a card: dim.y before the text is shown ...
CursorBeforeText(y, h) ==
    IF settings.notification_height <= (2 * settings.padding) + h
    THEN y + settings.padding
    ELSE y + (((settings.notification_height + 1) \div 2) - (h \div 2))

\* ... and after it
CursorAfterTextMutCeil(y, h) ==
    IF settings.notification_height <= (2 * settings.padding) + h
    THEN y + h + settings.padding
    ELSE y + (((settings.notification_height + 1) \div 2) + (h \div 2))

CursorAfterText(y, h) ==
    IF settings.notification_height <= (2 * settings.padding) + h
    THEN y + h + settings.padding
    ELSE y + ((settings.notification_height \div 2) + (h \div 2))

NO_RECT == [x |-> 0, y |-> 0, w |-> 0, h |-> 0,
            color |-> [r |-> ZeroDouble, g |-> ZeroDouble, b |-> ZeroDouble],
            painted |-> FALSE]

Rect(x, y, w, h, color) ==
    [x |-> x, y |-> y, w |-> w, h |-> h, color |-> color, painted |-> TRUE]

\* bg_height of the frame-coloured rectangle of a card whose content is h high
FrameHeightMutNoSeparator(h, first, last) ==
    MAX(settings.notification_height, (2 * settings.padding) + h)
    + (IF first THEN settings.frame_width ELSE 0)
    + (IF last THEN settings.frame_width ELSE 0)

FrameHeight(h, first, last) ==
    MAX(settings.notification_height, (2 * settings.padding) + h)
    + (IF first THEN settings.frame_width ELSE 0)
    + (IF last THEN settings.frame_width ELSE settings.separator_height)

\* returns the dimension with its cursor advanced, the rectangles painted and
\* the lines printed
x_render_layout(ns, cl, cl_next, dim, first, last) ==
    Bind(pango_layout_get_pixel_size(cl.l), LAMBDA p :
    Bind(IF cl.icon # NULL_ICON THEN MAX(cl.icon.h, p.h) ELSE p.h, LAMBDA h :
    Bind(FrameHeight(h, first, last), LAMBDA bg_height0 :
    Bind(IF first
         THEN bg_height0 - settings.frame_width
              - (IF ~last THEN settings.separator_height ELSE 0)
         ELSE bg_height0, LAMBDA bg_height1 :
    Bind(IF first THEN dim.y + settings.frame_width ELSE dim.y, LAMBDA y1 :
    Bind(CursorAfterText(CursorBeforeText(y1, h), h), LAMBDA y3 :
    Bind(settings.separator_height > 0 /\ ~last, LAMBDA sep :
    Bind(IF sep THEN y3 + settings.separator_height ELSE y3, LAMBDA y4 :
    Bind(IF sep THEN x_get_separator_color(ns, cl, cl_next)
         ELSE [color |-> NO_RECT.color, printed |-> <<>>], LAMBDA sep_color :
         [dim |-> [dim EXCEPT !.y = y4],
          printed |-> sep_color.printed,
          card |-> [frame |-> Rect(0, dim.y, dim.w, bg_height0, cl.frame),
                    bg |-> Rect(settings.frame_width, y1,
                                dim.w - 2 * settings.frame_width,
                                IF last THEN bg_height1 - settings.frame_width
                                ELSE bg_height1, cl.bg),
                    sep |-> IF ~sep THEN NO_RECT
                            ELSE IF settings.sep_color = "FRAME"
                            THEN Rect(0, y3, dim.w, settings.separator_height,
                                      sep_color.color)
                            ELSE Rect(settings.frame_width, y3 + settings.frame_width,
                                      dim.w - 2 * settings.frame_width,
                                      settings.separator_height,
                                      sep_color.color),
                    y_in |-> dim.y, y_out |-> y4]])))))))))

(***************************************************************************)
(* 4.6 Frame orchestrator                                                  *)
(***************************************************************************)
\* the loop of draw() over the layouts; acc is [dim, cards, printed]
RECURSIVE render_loop(_, _, _, _)
render_loop(ns, layouts, i, acc) ==
    IF i > Len(layouts) THEN acc
    ELSE Bind(x_render_layout(ns, layouts[i],
                              IF i < Len(layouts) THEN layouts[i + 1] ELSE layouts[i],
                              acc.dim, i = 1, i = Len(layouts)),
              LAMBDA r : render_loop(ns, layouts, i + 1,
                                     [dim |-> r.dim, cards |-> Append(acc.cards, r.card),
                                      printed |-> acc.printed \o r.printed]))

NO_DRAW == [state |-> "none", layouts |-> <<>>, width |-> 0, height |-> 0,
            y |-> 0, cards |-> <<>>, printed |-> <<>>]

\* "Error parsing markup" lines of `printed` about notification id
RECURSIVE CountErrors(_, _)
CountErrors(printed, id) ==
    IF printed = <<>> THEN 0
    ELSE (IF Head(printed).msg = "Error parsing markup" /\ Head(printed).id = id
          THEN 1 ELSE 0) + CountErrors(Tail(printed), id)

\* draw(): build the layouts, size the window, render every layout in order
Draw ==
    /\ out.state # "crashed"
    /\ \A i \in 1..Len(displayed) : builds[displayed[i].id] < MaxBuilds
    /\ builds' = [id \in DOMAIN builds |->
                     IF \E i \in 1..Len(displayed) : displayed[i].id = id
                     THEN builds[id] + 1 ELSE builds[id]]
    /\ \E b \in {r_create_layouts} :
          /\ displayed' = IF b.crashed THEN displayed ELSE b.displayed
          /\ markup_errors' = [id \in DOMAIN markup_errors |->
                                  markup_errors[id] + CountErrors(b.printed, id)]
          /\ IF b.crashed
             THEN out' = [NO_DRAW EXCEPT !.state = "crashed", !.printed = b.printed]
             ELSE \E cd \in {calculate_dimensions(b.layouts)} :
                  \E r \in {render_loop(b.displayed, cd.layouts, 1,
                                        [dim |-> cd.dim, cards |-> <<>>,
                                         printed |-> <<>>])} :
                     out' = [state |-> "ok", layouts |-> cd.layouts,
                             width |-> cd.dim.w, height |-> cd.dim.h,
                             y |-> r.dim.y, cards |-> r.cards,
                             printed |-> b.printed \o r.printed]
    /\ UNCHANGED <<settings, geometry, scr, queue, fs, g_free_error, created>>
    /\ UNCHANGED <<colorVars, parseVars, iconVars>>

(***************************************************************************)
(* Initial values                                                          *)
(***************************************************************************)
\* a string setting that was left unset (NULL); no setting here is the empty
\* string
NULL_STRING == <<>>

DefaultSettings ==
    [frame_width |-> 1, padding |-> 1, h_padding |-> 1, separator_height |-> 1,
     notification_height |-> 0, line_height |-> 0, shrink |-> FALSE,
     word_wrap |-> TRUE, ellipsize |-> "middle", indicate_hidden |-> TRUE,
     max_icon_size |-> 0, icon_position |-> "icons_left", sep_color |-> "FRAME",
     sep_custom_color_str |-> <<"#", "0", "0", "0", "0", "0", "0">>,
     lowfgcolor |-> <<"#", "8", "8", "8", "8", "8", "8">>,
     normfgcolor |-> <<"#", "f", "f", "f", "f", "f", "f">>,
     critfgcolor |-> <<"#", "f", "f", "f", "f", "f", "f">>,
     lowbgcolor |-> <<"#", "2", "2", "2", "2", "2", "2">>,
     normbgcolor |-> <<"#", "2", "2", "2", "2", "2", "2">>,
     critbgcolor |-> <<"#", "9", "0", "0", "0", "0", "0">>,
     lowframecolor |-> NULL_STRING,
     normframecolor |-> NULL_STRING,
     critframecolor |-> <<"#", "f", "f", "0", "0", "0", "0">>,
     frame_color |-> <<"#", "8", "8", "8", "8", "8", "8">>,
     icon_path |-> <<"p">>]

\* draw_setup(): the colour strings of the urgencies LOW, NORM and CRIT, a
\* frame colour that was left unset being settings.frame_color
color_strings ==
    [fg |-> <<settings.lowfgcolor, settings.normfgcolor, settings.critfgcolor>>,
     bg |-> <<settings.lowbgcolor, settings.normbgcolor, settings.critbgcolor>>,
     frame |-> <<IF settings.lowframecolor # NULL_STRING
                 THEN settings.lowframecolor ELSE settings.frame_color,
                 IF settings.normframecolor # NULL_STRING
                 THEN settings.normframecolor ELSE settings.frame_color,
                 IF settings.critframecolor # NULL_STRING
                 THEN settings.critframecolor ELSE settings.frame_color>>]

\* draw_setup(), which runs once before the first draw(): x_parse_geometry
\* (x11/x.c) leaves the geometry it parsed, here `parsed`, in geometry
draw_setup(parsed) == geometry = parsed

DefaultGeometry ==
    [dynamic_width |-> FALSE, width |-> 30, negative_width |-> FALSE, x |-> 0, height |-> 0]

DefaultFs == [path \in {<<<<"p">>, "icon", ".png">>} |-> "ok"]

\* every file of DefaultFs decodes: g_free(error) is not reached
DefaultGFreeError == [path \in DOMAIN DefaultFs |-> "returns"]

\* notification_init: text_to_render NULL, first_render set, the colour
\* strings of the urgency (LOW 0, NORM 1, CRIT 2)
NewNotification(id, msg, icon, urgency) ==
    [id |-> id, msg |-> msg, icon |-> icon, raw_icon |-> NULL_PIXBUF,
     icon_overridden |-> FALSE, urgency |-> urgency,
     color_strings |-> [fg |-> color_strings.fg[urgency + 1],
                        bg |-> color_strings.bg[urgency + 1],
                        frame |-> color_strings.frame[urgency + 1]],
     text_to_render |-> <<>>, first_render |-> TRUE, displayed_height |-> 0]

NullIconRef == [kind |-> "null", name |-> ""]

NamedIconRef == [kind |-> "name", name |-> "icon"]

NO_COLOR == [r |-> ZeroDouble, g |-> ZeroDouble, b |-> ZeroDouble]

IdleColor == cchain = <<>>

IdleParse == pstr = <<>> /\ pres = [done |-> FALSE, color |-> NO_COLOR, printed |-> <<>>]

IdleIcon ==
    /\ ireq = NullIconRef
    /\ ires = [done |-> FALSE, pixbuf |-> NULL_PIXBUF, printed |-> <<>>, visited |-> <<>>,
              crashed |-> FALSE]

IdleDraw ==
    /\ settings = DefaultSettings
    /\ draw_setup(DefaultGeometry)
    /\ scr = [w |-> ScreenW]
    /\ displayed = <<>>
    /\ queue = <<>>
    /\ fs = DefaultFs
    /\ g_free_error = DefaultGFreeError
    /\ out = NO_DRAW
    /\ markup_errors = [id \in 1..MaxNotif |-> 0]
    /\ created = 0
    /\ builds = [id \in 1..MaxNotif |-> 0]

(***************************************************************************)
(* SpecColor: calculate_foreground_color applied to a colour, and again    *)
(***************************************************************************)
\* bytes whose colour, brightened once, has the channels 109/510, 507/510 and
\* 149/510 by exact arithmetic and a mean above 0.5 by the arithmetic of doubles
BoundaryBytes == {29, 228, 49}

Channels == {k * ByteStep : k \in 0..(255 \div ByteStep)} \cup {255} \cup BoundaryBytes

\* the colours x_string_to_color_t returns: every channel a byte over 255.0
InitColor ==
    /\ cchain \in {<<x_color_hex_to_double(65536 * r + 256 * g + b)>> :
                      r \in Channels, g \in Channels, b \in Channels}
    /\ IdleParse /\ IdleIcon /\ IdleDraw

ApplyForeground ==
    /\ Len(cchain) \in 1..2
    /\ cchain' = Append(cchain, calculate_foreground_color(cchain[Len(cchain)]))
    /\ UNCHANGED <<drawVars, parseVars, iconVars>>

SpecColor == InitColor /\ [][ApplyForeground]_vars

(***************************************************************************)
(* SpecParse: x_string_to_color_t applied to a string                      *)
(***************************************************************************)
ParseAlphabet == {"0", "f", "x", "g", "\t"}

ColorStrings ==
    {<<"#">> \o t : t \in UNION {[1..k -> ParseAlphabet] : k \in 0..MaxStrLen}}

InitParse ==
    /\ pstr \in ColorStrings
    /\ pres = [done |-> FALSE, color |-> NO_COLOR, printed |-> <<>>]
    /\ IdleColor /\ IdleIcon /\ IdleDraw

ParseColor ==
    /\ ~pres.done
    /\ LET r == x_string_to_color_t(pstr)
       IN  pres' = [done |-> TRUE, color |-> r.color, printed |-> r.printed]
    /\ UNCHANGED <<pstr, drawVars, colorVars, iconVars>>

SpecParse == InitParse /\ [][ParseColor]_vars

(***************************************************************************)
(* SpecIcon: get_pixbuf_from_path over every state of the icon files       *)
(***************************************************************************)
FolderNames == <<"p", "q", "r", "s", "t">>

\* "p", "p:q", "p:q:r", ...
RECURSIVE IconPathOf(_)
IconPathOf(k) == IF k = 1 THEN <<FolderNames[1]>>
                 ELSE IconPathOf(k - 1) \o <<":", FolderNames[k]>>

\* the files the search builds from the folders and the whole reference, and
\* the file the reference names by itself
IconFiles(k, icon) ==
    {<<<<FolderNames[d]>>, icon.name, ext>> : d \in 1..k, ext \in {".svg", ".png"}}
    \cup (IF icon.kind \in {"abs", "uri"} THEN {<<<<>>, icon.name, "">>}
          ELSE IF icon.kind = "tilde" THEN {<<<<".">>, icon.name, "">>}
          ELSE {})

\* a file's state and what g_free(error) does if the file fails to decode
FileOutcomes ==
    {<<st, "returns">> : st \in FileStates} \cup {<<"corrupt", "aborts">>}

InitIcon ==
    /\ ireq \in {NamedIconRef, [kind |-> "abs", name |-> "icon"],
                 [kind |-> "tilde", name |-> "~icon"]}
    /\ \E k \in 1..MaxDirs :
          /\ settings = [DefaultSettings EXCEPT !.icon_path = IconPathOf(k)]
          /\ \E files \in [IconFiles(k, ireq) -> FileOutcomes] :
                /\ fs = [path \in DOMAIN files |-> files[path][1]]
                /\ g_free_error = [path \in DOMAIN files |-> files[path][2]]
    /\ ires = [done |-> FALSE, pixbuf |-> NULL_PIXBUF, printed |-> <<>>, visited |-> <<>>,
              crashed |-> FALSE]
    /\ draw_setup(DefaultGeometry)
    /\ scr = [w |-> ScreenW]
    /\ displayed = <<>>
    /\ queue = <<>>
    /\ out = NO_DRAW
    /\ markup_errors = [id \in 1..MaxNotif |-> 0]
    /\ created = 0
    /\ builds = [id \in 1..MaxNotif |-> 0]
    /\ IdleColor /\ IdleParse

LookupIcon ==
    /\ ~ires.done
    /\ LET r == get_pixbuf_from_path(ireq)
       IN  ires' = [done |-> TRUE, pixbuf |-> r.pixbuf, printed |-> r.printed,
                    visited |-> r.visited, crashed |-> r.pixbuf = ABORTED_PIXBUF]
    /\ UNCHANGED <<ireq, drawVars, colorVars, parseVars>>

SpecIcon == InitIcon /\ [][LookupIcon]_vars

(***************************************************************************)
(* SpecDraw: one draw() of a stack of notifications, over the settings     *)
(* that decide the geometry                                                *)
(***************************************************************************)
RECURSIVE PlainText(_)
PlainText(len) == IF len = 0 THEN <<>> ELSE Append(PlainText(len - 1), "a")

DrawSettings ==
    {[DefaultSettings EXCEPT !.frame_width = fw, !.padding = pad, !.h_padding = hp,
                             !.separator_height = sep, !.notification_height = nh,
                             !.shrink = sh, !.word_wrap = ww] :
        fw \in {0, 1}, pad \in {0, 1}, hp \in {0, 1}, sep \in {0, 1},
        nh \in {0, 2 * FontHeight + 1}, sh \in BOOLEAN, ww \in BOOLEAN}

\* dynamic width (at two anchors), a fixed width, a fixed width anchored
\* negative, and the whole screen
DrawGeometries ==
    {[DefaultGeometry EXCEPT !.dynamic_width = g[1], !.width = g[2],
                             !.negative_width = g[3], !.x = g[4]] :
        g \in {<<TRUE, 0, FALSE, 0>>, <<TRUE, 0, FALSE, 1>>,
               <<FALSE, FixedW, FALSE, 0>>, <<FALSE, ScreenW - FixedW, TRUE, 1>>,
               <<FALSE, 0, FALSE, 0>>}}

\* the notifications of a stack: kinds[i] is <<glyphs, icon reference>>
Stack(kinds) ==
    [i \in 1..Len(kinds) |-> NewNotification(i, PlainText(kinds[i][1]), kinds[i][2], 1)]

DrawStacks ==
    {Stack(kinds) : kinds \in UNION {[1..k -> {<<ShortText, NullIconRef>>,
                                               <<LongText, NullIconRef>>,
                                               <<ShortText, NamedIconRef>>}] :
                                      k \in 1..MaxLayouts}}

InitDraw ==
    /\ settings \in DrawSettings
    /\ \E parsed \in DrawGeometries : draw_setup(parsed)
    /\ scr = [w |-> ScreenW]
    /\ displayed \in DrawStacks
    /\ queue = <<>>
    /\ fs = DefaultFs
    /\ g_free_error = DefaultGFreeError
    /\ out = NO_DRAW
    /\ markup_errors = [id \in 1..MaxLayouts |-> 0]
    /\ created = Len(displayed)
    /\ builds = [id \in 1..MaxLayouts |-> 0]
    /\ IdleColor /\ IdleParse /\ IdleIcon

SpecDraw == InitDraw /\ [][Draw]_vars

(***************************************************************************)
(* SpecQueue: notifications arrive, are shown and closed (the queue, an    *)
(* external collaborator), and draw() runs between these steps.  draw()    *)
(* frees its layouts before it returns (r_free_layouts), so `out` stands   *)
(* only until the lists it was built from change.                          *)
(***************************************************************************)
Messages ==
    {<<"<b>", "a", "</b>", "b">>,      \* markup that parses
     <<"<x>", "a", "b", "</x>">>}      \* an unsupported tag

InitQueue ==
    /\ settings \in {[DefaultSettings EXCEPT !.indicate_hidden = ih] : ih \in BOOLEAN}
    /\ \E parsed \in {[DefaultGeometry EXCEPT !.height = h] : h \in {0, 1}} :
          draw_setup(parsed)
    /\ scr = [w |-> ScreenW]
    /\ displayed = <<>>
    /\ queue = <<>>
    /\ fs = DefaultFs
    /\ g_free_error = DefaultGFreeError
    /\ out = NO_DRAW
    /\ markup_errors = [id \in 1..MaxNotif |-> 0]
    /\ created = 0
    /\ builds = [id \in 1..MaxNotif |-> 0]
    /\ IdleColor /\ IdleParse /\ IdleIcon

\* a notification arrives and waits in the queue
NotifyHidden ==
    /\ out.state # "crashed"
    /\ created < MaxNotif
    /\ \E m \in Messages :
          queue' = Append(queue, NewNotification(created + 1, m, NullIconRef, 1))
    /\ created' = created + 1
    /\ out' = NO_DRAW
    /\ UNCHANGED <<settings, geometry, scr, displayed, fs, g_free_error, markup_errors,
                   builds>>
    /\ UNCHANGED <<colorVars, parseVars, iconVars>>

\* the first waiting notification is shown
ShowNext ==
    /\ out.state # "crashed"
    /\ queue # <<>>
    /\ displayed' = Append(displayed, Head(queue))
    /\ queue' = Tail(queue)
    /\ out' = NO_DRAW
    /\ UNCHANGED <<settings, geometry, scr, fs, g_free_error, markup_errors, created,
                   builds>>
    /\ UNCHANGED <<colorVars, parseVars, iconVars>>

\* a displayed notification is closed
Close ==
    /\ out.state # "crashed"
    /\ \E i \in 1..Len(displayed) :
          displayed' = SubSeq(displayed, 1, i - 1) \o SubSeq(displayed, i + 1, Len(displayed))
    /\ out' = NO_DRAW
    /\ UNCHANGED <<settings, geometry, scr, queue, fs, g_free_error, markup_errors,
                   created, builds>>
    /\ UNCHANGED <<colorVars, parseVars, iconVars>>

NextQueue == NotifyHidden \/ ShowNext \/ Close \/ Draw

SpecQueue == InitQueue /\ [][NextQueue]_vars

(***************************************************************************)
(* SpecSeparator: one draw() of a stack under every separator colour       *)
(* policy                                                                  *)
(***************************************************************************)
SeparatorPolicies == {"FRAME", "CUSTOM", "FOREGROUND", "AUTO"}

\* a colour string with two characters after its hexadecimal digits
BadColorString == <<"#", "f", "g", "g">>

\* the custom separator colour is varied under the CUSTOM policy, which alone
\* reads it
SeparatorColorStrings ==
    {<<sc, DefaultSettings.sep_custom_color_str>> : sc \in SeparatorPolicies}
    \cup {<<"CUSTOM", BadColorString>>}

SeparatorSettings ==
    {[DefaultSettings EXCEPT !.sep_color = sc[1], !.sep_custom_color_str = sc[2],
                             !.normfgcolor = fg, !.frame_width = fw,
                             !.separator_height = sep, !.padding = pad,
                             !.max_icon_size = max] :
        sc \in SeparatorColorStrings, fg \in {DefaultSettings.normfgcolor, BadColorString},
        fw \in {0, 1, 2}, sep \in {0, 1, 2}, pad \in {0, 1},
        max \in {0, 1, IconH - 2}}

InitSeparator ==
    /\ settings \in SeparatorSettings
    /\ draw_setup([DefaultGeometry EXCEPT !.width = FixedW])
    /\ scr = [w |-> ScreenW]
    /\ displayed \in DrawStacks
    /\ queue = <<>>
    /\ fs = DefaultFs
    /\ g_free_error = DefaultGFreeError
    /\ out = NO_DRAW
    /\ markup_errors = [id \in 1..MaxLayouts |-> 0]
    /\ created = Len(displayed)
    /\ builds = [id \in 1..MaxLayouts |-> 0]
    /\ IdleColor /\ IdleParse /\ IdleIcon

SpecSeparator == InitSeparator /\ [][Draw]_vars

(***************************************************************************)
(* Properties                                                              *)
(***************************************************************************)
\* the channels of a colour to the nearest 1/510, and their sum
Units(c) == [r |-> c.r.u, g |-> c.g.u, b |-> c.b.u]

ChannelSum(c) == c.r.u + c.g.u + c.b.u

\* mean 0.5 in the units of the colour channels, three channels summed
HalfSum == 3 * 255

Distance(c) == IF ChannelSum(c) >= HalfSum THEN ChannelSum(c) - HalfSum
               ELSE HalfSum - ChannelSum(c)

\* the card height of a layout as it is shaped now
CardHeightOf(cl) ==
    LET p == pango_layout_get_pixel_size(cl.l)
        h == IF cl.icon # NULL_ICON THEN MAX(cl.icon.h, p.h) ELSE p.h
    IN  MAX(settings.notification_height, h + 2 * settings.padding)

RECURSIVE SumCardHeights(_)
SumCardHeights(layouts) ==
    IF layouts = <<>> THEN 0
    ELSE CardHeightOf(Head(layouts)) + SumCardHeights(Tail(layouts))

\* the content width of a layout before any wrapping: one pixel per glyph,
\* plus the icon and its padding
ContentWidthOf(cl) ==
    Len(cl.l.text) + (IF cl.icon # NULL_ICON THEN cl.icon.w + settings.h_padding ELSE 0)

MaxContentWidth(layouts) ==
    CHOOSE m \in {ContentWidthOf(layouts[i]) : i \in DOMAIN layouts} :
        \A i \in DOMAIN layouts : ContentWidthOf(layouts[i]) <= m

Drawn == out.state = "ok" /\ Len(out.layouts) >= 1

FixedWidthMode ==
    ~geometry.dynamic_width /\ geometry.width # 0 /\ ~geometry.negative_width

\* C1 (as stated): after the last x_render_layout of a draw the cursor dim.y
\* equals the height dim.h that calculate_dimensions computed.
C1_CursorEqualsHeight == Drawn => out.y = out.height

\* C1 (amended): after the last x_render_layout of a draw the cursor dim.y
\* equals dim.h - frame_width: the cursor passes the top frame, every card and
\* every separator, but never the bottom frame.
C1_CursorStopsBeforeBottomFrame == Drawn => out.y = out.height - settings.frame_width

C1_Witness ==
    /\ Drawn
    /\ Len(out.layouts) >= 2
    /\ settings.frame_width > 0
    /\ settings.separator_height > 0
    /\ settings.notification_height > FontHeight + 2 * settings.padding
    /\ \E i \in DOMAIN out.layouts : out.layouts[i].icon # NULL_ICON
    /\ out.y = out.height - settings.frame_width
    /\ out.y # out.height

\* C2: for n >= 1 layouts, in every width mode, dim.h is 2*frame_width +
\* (n-1)*separator_height + the sum of the card heights, each card height
\* max(notification_height, max(text height, icon height) + 2*padding) taken
\* on the shaping the layout is left with.
C2_HeightIsSumOfCards ==
    Drawn => out.height = 2 * settings.frame_width
                          + (Len(out.layouts) - 1) * settings.separator_height
                          + SumCardHeights(out.layouts)

C2_Witness ==
    /\ Drawn
    /\ Len(out.layouts) >= 3
    /\ geometry.dynamic_width \/ settings.shrink
    /\ settings.frame_width > 0 /\ settings.separator_height > 0
    /\ \E i \in DOMAIN out.layouts :
          pango_layout_get_pixel_size(out.layouts[i].l).h > FontHeight
    /\ \E i \in DOMAIN out.layouts : out.layouts[i].icon # NULL_ICON
    /\ out.height = 2 * settings.frame_width
                    + (Len(out.layouts) - 1) * settings.separator_height
                    + SumCardHeights(out.layouts)

\* C3 (as stated): in dynamic-width mode dim.w is M + 2*h_padding +
\* 2*frame_width, M the largest content width of the layouts.
C3_DynamicWidthIsContentWidth ==
    (Drawn /\ geometry.dynamic_width)
        => out.width = MaxContentWidth(out.layouts) + 2 * settings.h_padding
                       + 2 * settings.frame_width

\* C3 (amended): in dynamic-width mode dim.w is M + 2*h_padding + 2*frame_width
\* while M + 2*h_padding fits the screen width; when it does not, and the
\* screen is wider than twice the anchor offset, dim.w is
\* scr->dim.w - 2*geometry.x.
C3_DynamicWidthWhenContentFits ==
    (Drawn /\ geometry.dynamic_width)
        => LET M == MaxContentWidth(out.layouts)
           IN  /\ M + 2 * settings.h_padding <= scr.w
                    => out.width = M + 2 * settings.h_padding + 2 * settings.frame_width
               /\ (M + 2 * settings.h_padding > scr.w /\ scr.w - 2 * geometry.x > 0)
                    => out.width = scr.w - 2 * geometry.x

C3_Witness ==
    /\ Drawn /\ geometry.dynamic_width
    /\ Len(out.layouts) >= 2
    /\ settings.h_padding > 0 /\ settings.frame_width > 0
    /\ ContentWidthOf(out.layouts[1]) < ContentWidthOf(out.layouts[Len(out.layouts)])
    /\ MaxContentWidth(out.layouts) + 2 * settings.h_padding <= scr.w
    /\ out.width = MaxContentWidth(out.layouts) + 2 * settings.h_padding
                   + 2 * settings.frame_width

\* C4: in dynamic-width mode dim.w never exceeds the width of the screen.
C4_DynamicWidthWithinScreen ==
    (Drawn /\ geometry.dynamic_width) => out.width <= scr.w

\* C5 (as stated): with a fixed width W # 0 that is not anchored negative,
\* dim.w is W whatever the layouts and the other settings are.
C5_FixedWidthIsConfigured == (Drawn /\ FixedWidthMode) => out.width = geometry.width

\* C5 (amended): with a fixed width W > 0 that is not anchored negative and
\* with settings.shrink off, dim.w is W whatever the layouts are.
C5_FixedWidthWithoutShrink ==
    (Drawn /\ FixedWidthMode /\ geometry.width > 0 /\ ~settings.shrink)
        => out.width = geometry.width

C5_Witness ==
    /\ Drawn /\ FixedWidthMode /\ ~settings.shrink
    /\ \E i \in DOMAIN out.layouts : ContentWidthOf(out.layouts[i]) > geometry.width
    /\ \E i \in DOMAIN out.layouts :
          ContentWidthOf(out.layouts[i]) + 2 * settings.h_padding < geometry.width
    /\ out.width = geometry.width

HasSuffix(text, suffix) ==
    /\ Len(text) >= Len(suffix)
    /\ SubSeq(text, Len(text) - Len(suffix) + 1, Len(text)) = suffix

\* a draw() that builds its list and leaves in it what the displayed list and
\* the hidden queue ask for
LayoutsMirrorDisplayed ==
    LET n == Len(displayed)
        N == Len(queue)
        L == out'.layouts
        indicated == N > 0 /\ settings.indicate_hidden
        xmore == indicated /\ geometry.height # 1
        suffix == FormatSuffixed(<<>>, N)
    IN    /\ out'.state = "ok"
          /\ Len(L) = n + (IF xmore THEN 1 ELSE 0)
          /\ \A i \in 1..n : /\ L[i].n = displayed[i].id
                             /\ displayed'[i].id = displayed[i].id
                             /\ L[i].l.text # FormatXmore(N)
          /\ xmore => /\ L[n + 1].l.text = FormatXmore(N)
                      /\ L[n + 1].text = FormatXmore(N)
                      /\ L[n + 1].attr = {}
          /\ \A i \in 1..n :
                /\ HasSuffix(displayed'[i].text_to_render, suffix)
                      <=> (indicated /\ geometry.height = 1 /\ i = n)
                /\ HasSuffix(L[i].l.text, suffix)
                      <=> (indicated /\ geometry.height = 1 /\ i = n)

\* C6: the list r_create_layouts builds holds one layout per displayed
\* notification, in displayed order, followed by one "(N more)" layout, last,
\* exactly when N > 0 notifications are hidden, indicate_hidden is on and
\* geometry.height # 1; with geometry.height = 1 no layout is appended and
\* only the last displayed notification's text ends in " (N more)".  Every
\* draw() builds this list, the one of an empty displayed list with N > 0
\* hidden notifications included, whose list is the "(N more)" layout alone.
C6_LayoutsMirrorDisplayed == [][Draw => LayoutsMirrorDisplayed]_vars

MarkupFails(n) == pango_parse_markup(n.msg).err

Alive == {displayed[i] : i \in DOMAIN displayed} \cup {queue[i] : i \in DOMAIN queue}

ErrorLoggedOnce ==
    /\ \A id \in DOMAIN markup_errors : markup_errors[id] <= 1
    /\ \A n \in Alive :
          markup_errors[n.id] = IF MarkupFails(n) /\ builds[n.id] >= 1 THEN 1 ELSE 0

FallsBackToPlainText ==
    \A i \in 1..Len(displayed) :
       MarkupFails(displayed[i]) =>
          /\ out'.state = "ok"
          /\ out'.layouts[i].n = displayed[i].id
          /\ out'.layouts[i].l.text
                 \in {SelectSeq(displayed[i].msg, IsPlainToken),
                      FormatSuffixed(SelectSeq(displayed[i].msg, IsPlainToken), Len(queue))}
          /\ out'.layouts[i].l.attrs = {}
          /\ out'.layouts[i].attr = {}

\* C7: over any sequence of draws, the parser error of a notification whose
\* markup does not parse is logged once, on its first build, and never again;
\* every build of it shows the text without its tags and without attributes,
\* and the draw goes on.
C7_MarkupErrorLoggedOnce ==
    [](ErrorLoggedOnce) /\ [][Draw => FallsBackToPlainText]_vars

C7_Witness ==
    \E i \in DOMAIN displayed :
       /\ MarkupFails(displayed[i])
       /\ builds[displayed[i].id] >= 2
       /\ markup_errors[displayed[i].id] = 1
       /\ out.state = "ok"
       /\ i \in DOMAIN out.layouts
       /\ out.layouts[i].n = displayed[i].id
       /\ out.layouts[i].l.text = SelectSeq(displayed[i].msg, IsPlainToken)

\* the folders of a colon-separated list of one-letter folder names
FoldersOf(icon_path) == SelectSeq(icon_path, LAMBDA c : c # ":")

\* d1/name.svg, d1/name.png, d2/name.svg, d2/name.png, ...
Candidates(icon_path, name) ==
    LET ds == FoldersOf(icon_path)
    IN  [j \in 1..(2 * Len(ds)) |->
            <<<<ds[(j + 1) \div 2]>>, name, IF j % 2 = 1 THEN ".svg" ELSE ".png">>]

\* C8: an icon name is looked up in the folders of settings.icon_path in the
\* order d1/name.svg, d1/name.png, d2/name.svg, ...; the first candidate that
\* decodes is returned, every folder is visited at most once, and when no
\* candidate decodes "Could not load icon" is logged and no icon returned.
C8_FirstDecodableCandidate ==
    (ires.done /\ ireq.kind = "name")
        => LET cs == Candidates(settings.icon_path, ireq.name)
               ok == {j \in DOMAIN cs : fs[cs[j]] = "ok"}
           IN  /\ \A a, b \in DOMAIN ires.visited :
                     a # b => ires.visited[a] # ires.visited[b]
               /\ IF ok # {}
                  THEN /\ ires.pixbuf # NULL_PIXBUF
                       /\ ires.pixbuf.path = cs[CHOOSE j \in ok : \A k \in ok : j <= k]
                  ELSE /\ ires.pixbuf = NULL_PIXBUF
                       /\ \E k \in DOMAIN ires.printed :
                             ires.printed[k].msg = "Could not load icon"

\* C9 (as stated): c1 = f(bg) and c2 = f(c1) move the channel mean further
\* from 0.5 each time, all three means on the same side of 0.5.
C9_MeanMovesAwayFromHalf ==
    Len(cchain) = 3
        => /\ Distance(cchain[3]) >= Distance(cchain[2])
           /\ Distance(cchain[2]) >= Distance(cchain[1])
           /\ \/ \A i \in 1..3 : ChannelSum(cchain[i]) >= HalfSum
              \/ \A i \in 1..3 : ChannelSum(cchain[i]) <= HalfSum

\* every channel of d is the channel of c less 0.1, not below 0
Darkened(c, d) ==
    /\ \A ch \in {"r", "g", "b"} : d[ch].u = MAX(0, c[ch].u - c_delta.u)
    /\ ChannelSum(d) <= ChannelSum(c) - c_delta.u
    /\ ChannelSum(d) >= ChannelSum(c) - 3 * c_delta.u

\* every channel of d is the channel of c plus 0.1, not above 1
Brightened(c, d) ==
    /\ \A ch \in {"r", "g", "b"} : d[ch].u = MIN(ColorUnit, c[ch].u + c_delta.u)
    /\ ChannelSum(d) >= ChannelSum(c) + c_delta.u
    /\ ChannelSum(d) <= ChannelSum(c) + 3 * c_delta.u

\* C9 (amended): calculate_foreground_color moves every channel by 0.1 towards
\* the other side of 0.5, clamped to [0,1], the channels read to the nearest
\* 1/510: a colour of mean above 0.5 is darkened, a colour of mean below 0.5 is
\* brightened, a colour whose channels add up to 1.5 is darkened or brightened
\* as the rounding of its doubles falls; the mean changes by at least 0.1/3 and
\* at most 0.1, and so f(c) is never c.
C9_MeanMovesTowardsHalf ==
    \A i \in 1..(Len(cchain) - 1) :
       LET c == cchain[i]
           d == cchain[i + 1]
       IN  /\ d # c
           /\ ChannelSum(c) > HalfSum => Darkened(c, d)
           /\ ChannelSum(c) < HalfSum => Brightened(c, d)
           /\ ChannelSum(c) = HalfSum => Darkened(c, d) \/ Brightened(c, d)

C9_Witness ==
    /\ Len(cchain) = 3
    /\ ChannelSum(cchain[1]) > HalfSum
    /\ ChannelSum(cchain[2]) < HalfSum
    /\ ChannelSum(cchain[3]) > HalfSum
    /\ \E ch \in {"r", "g", "b"} : cchain[1][ch].u < c_delta.u

\* the length of the run of hex digits s starts with
RECURSIVE HexPrefixLen(_)
HexPrefixLen(s) ==
    IF s # <<>> /\ IsHexDigit(Head(s)) THEN 1 + HexPrefixLen(Tail(s)) ELSE 0

RECURSIVE HexPrefixValue(_, _)
HexPrefixValue(s, acc) ==
    IF s # <<>> /\ IsHexDigit(Head(s))
    THEN HexPrefixValue(Tail(s), 16 * acc + HexVal(Head(s))) ELSE acc

Warned(printed) == \E k \in DOMAIN printed : printed[k].msg = "WARNING: Invalid color string"

\* C10: for a marker character, a run of hex digits and one or more non-hex
\* characters, x_string_to_color_t warns "Invalid color string" and returns
\* the colour of the hex run; for a marker and hex digits only it does not warn.
C10_TrailingGarbageWarns ==
    LET t == Tail(pstr)
        k == HexPrefixLen(t)
        v == HexPrefixValue(t, 0)
    IN  (pres.done /\ \A j \in (k + 1)..Len(t) : ~IsHexDigit(t[j]))
           => /\ Warned(pres.printed) <=> Len(t) > k
              /\ Units(pres.color) = [r |-> 2 * ((v \div 65536) % 256),
                                      g |-> 2 * ((v \div 256) % 256),
                                      b |-> 2 * (v % 256)]

\* the width a layout is shaped at in a stack dim_w wide
ShapingWidthIn(dim_w, cl) ==
    LET w == dim_w - 2 * settings.h_padding - 2 * settings.frame_width
             - (IF cl.icon # NULL_ICON THEN cl.icon.w + settings.h_padding ELSE 0)
    IN  IF w < 0 THEN 0 - 1 ELSE w

\* C11: in dynamic-width or shrink mode every layout is left shaped at the
\* one width of the stack: dim.w - 2*h_padding - 2*frame_width, less the icon
\* and its padding, whatever the order of the content widths.
C11_OneShapingWidth ==
    (Drawn /\ (geometry.dynamic_width \/ settings.shrink))
        => \A i \in DOMAIN out.layouts :
              out.layouts[i].l.width = ShapingWidthIn(out.width, out.layouts[i])

SeparatorsPainted ==
    {i \in DOMAIN out.cards : out.cards[i].sep.painted}

\* C12: under every separator colour policy and every frame_width, with
\* separator_height > 0 the separator painted after a card that is not the last
\* covers the rows [y, y + separator_height) the cursor then passes: it starts
\* where the card ends, ends where the next card starts, and neither the frame
\* nor the background rectangle of the next card reaches into it.
C12_SeparatorBetweenCards ==
    (Drawn /\ settings.separator_height > 0)
        => /\ SeparatorsPainted = 1..(Len(out.cards) - 1)
           /\ \A i \in SeparatorsPainted :
                 LET s == out.cards[i].sep
                     next == out.cards[i + 1]
                 IN  /\ s.h = settings.separator_height
                     /\ s.y + s.h = out.cards[i].y_out
                     /\ s.y + s.h = next.y_in
                     /\ s.y + s.h <= next.frame.y
                     /\ s.y + s.h <= next.bg.y

\* C13: the frame-coloured rectangles of one draw tile the surface from top
\* to bottom: the first starts at y = 0, each next one starts where the one
\* before ends, and the last ends at dim.h.
C13_FrameRectanglesTile ==
    Drawn =>
       LET n == Len(out.cards)
       IN  /\ n = Len(out.layouts)
           /\ \A i \in 1..n : out.cards[i].frame.painted
           /\ out.cards[1].frame.y = 0
           /\ \A i \in 1..(n - 1) :
                 out.cards[i + 1].frame.y = out.cards[i].frame.y + out.cards[i].frame.h
           /\ out.cards[n].frame.y + out.cards[n].frame.h = out.height

C13_Witness ==
    /\ Drawn
    /\ Len(out.cards) >= 3
    /\ settings.frame_width > 0 /\ settings.separator_height > 0
    /\ settings.notification_height > FontHeight + 2 * settings.padding
    /\ \E i \in DOMAIN out.layouts : out.layouts[i].icon # NULL_ICON
    /\ out.cards[2].frame.y = out.cards[1].frame.y + out.cards[1].frame.h
    /\ out.cards[2].frame.y > 0
    /\ out.cards[Len(out.cards)].frame.y + out.cards[Len(out.cards)].frame.h = out.height

\* C14: after a draw the displayed_height kept on every displayed notification
\* is the card height calculate_dimensions counted for its layout, in every
\* width mode.
C14_DisplayedHeightIsCardHeight ==
    Drawn => \A i \in DOMAIN displayed :
                i \in DOMAIN out.layouts
                   => displayed[i].displayed_height = CardHeightOf(out.layouts[i])

\* C15: for every displayed list and hidden queue and every indicate_hidden
\* and geometry.height, r_create_layouts builds no layout from a NULL
\* notification (a draw that does reads through the NULL pointer and ends the
\* process).
C15_NoLayoutFromNullNotification ==
    /\ out.state # "crashed"
    /\ \A i \in DOMAIN out.layouts : out.layouts[i].n # NULL_NOTIF.id

====
